---- MODULE Spec2Model ----
(***************************************************************************)
(* Model of the Mongo_DB_Writer import scripts: the document store         *)
(* (collections Properties_HTL, Properties_APT, Property_Types, Reviews,   *)
(* Rooms, Reputation_KPI_Table, FULL and BAR), and the per-record loops  *)
(* of the import drivers seed_properties, seed_reviews, seed_full,         *)
(* seed_rooms, seed_reputation and seed_bar, one record per step.          *)
(* Scripts run one at a time (batch jobs), any number of times.            *)
(* The pure helpers (accommodation classifier, parse_int, parse_float,     *)
(* parse_date, parse_occupancy, translate_city) are exercised on their     *)
(* own by SpecLevel, SpecParsers, SpecDates, SpecOccupancy and SpecCities. *)
(***************************************************************************)
EXTENDS Integers, Sequences, FiniteSets, TLC

\* ---- bounds of the model ----
MaxBookingId == 1   \* booking identifiers range over 0..MaxBookingId
MaxBatch == 2       \* records in one input file
MaxRuns == 2        \* script runs in one behaviour
MaxWords == 3       \* words in an accommodation-type string
MaxChars == 4       \* characters in a string handed to parse_int / parse_float
MaxUnits == 7       \* units (characters, words) in a room description

VARIABLES
    Properties_HTL,        \* collection: set of [_id, booking_id, type_structure]
    Properties_APT,        \* collection: set of [_id, booking_id, type_structure]
    Property_Types,        \* collection: set of [propertyIDs, property_name, category]
    Reviews,               \* collection: set of [_id, PropertyId]
    Rooms,                 \* collection: set of [_id, PropertyId]
    Reputation_KPI_Table,  \* collection: set of [_id, PropertyId]
    FULL_HTL,              \* collection: set of [_id, PropertyId, Type]
    FULL_APT,              \* collection: set of [_id, PropertyId, Type]
    BAR_HTL,               \* collection: set of [_id, Type]
    BAR_APT,               \* collection: set of [_id, Type]
    nextOid,               \* next ObjectId the store hands out
    driver,                \* the script that is running (or ran last)
    pc,                    \* "idle" | "loop" | "done" | "aborted" (uncaught exception)
    N,                     \* len(data) of the running script
    idx,                   \* number of records whose loop iteration has completed
    success, errors, duplicates,   \* the drivers' counters
    booking_id_map,        \* result of get_booking_id_map() (reviews, full)
    skipped_ids,           \* lines appended to skipped_ids.txt in this run
    log,                   \* reports of this run, in order: [i, kind]
    inserted,              \* insert_one calls of this run
    hist,                  \* per completed/attempted record: would it fail validation
    record,                \* the record of the last iteration
    outcome,               \* what the last iteration did with it
    runs,                  \* script runs started so far
    accommodation_type,    \* argument of the accommodation classifier
    level,                 \* extract_accommodation_level(accommodation_type), "none" before the call
    bar_level,             \* seed_bar.extract_accomodation_level(accommodation_type)
    input,                 \* argument (val) of parse_int / parse_float
    parser,                \* the parser that was called on val ("none" before the call)
    parsed,                \* its result
    date_input,            \* argument of the last parse_date call
    parsed_date,           \* its result
    LC_TIME,               \* the process-global time locale
    locales,               \* locales installed on the host
    accomodation_type,     \* parse_occupancy: the description text
    occupazione,           \* parse_occupancy: the fallback count
    occupancy,             \* parse_occupancy: the returned pair (<<>> before the call)
    city_name,             \* argument of translate_city
    translator,            \* the copy of translate_city that was called ("none" before)
    translated,            \* its result
    script,                \* the import script whose try block builds a document
    candidate,             \* the raw record (a JSON object) it is given
    document,              \* doc, as handed to insert_one
    handed                 \* "inserted", "rejected" (the except branch), "none" before

store == <<Properties_HTL, Properties_APT, Property_Types, Reviews, Rooms,
           Reputation_KPI_Table, FULL_HTL, FULL_APT, BAR_HTL, BAR_APT, nextOid>>
local == <<driver, pc, N, idx, success, errors, duplicates, booking_id_map,
           skipped_ids, log, inserted, hist, record, outcome, runs>>
classifier == <<accommodation_type, level, bar_level>>
scalars == <<input, parser, parsed>>
dates == <<date_input, parsed_date, LC_TIME, locales>>
occupancies == <<accomodation_type, occupazione, occupancy>>
cities == <<city_name, translator, translated>>
documents == <<script, candidate, document, handed>>
pure == <<classifier, scalars, dates, occupancies, cities, documents>>
vars == <<store, local, pure>>

\* ---- raw JSON values of an id field ----
\* k = "int": the integer v;  "str": the decimal string of v;  "hex": the 24-hex
\* string of ObjectId v;  "null": None / missing key;  "map": a nested mapping;
\* "inf": the float Infinity (json.load accepts the literal Infinity).
Raw(k, v) == [k |-> k, v |-> v]
None == Raw("null", 0)
BookingIds == 0..MaxBookingId
RawIds == {Raw("int", n) : n \in BookingIds} \cup {Raw("str", n) : n \in 1..MaxBookingId}
            \cup {None, Raw("map", 0), Raw("inf", 0)}
\* hex strings in a rooms file: the ObjectId of a stored property, and a stale one
HexIds == {Raw("hex", 1), Raw("hex", 0)}
Raised == Raw("raise", 0)

\* ---- structure-type identifiers (record field "Tipologia") ----
TName(s) == [k |-> "str", name |-> s, code |-> 0]
TCode(c) == [k |-> "int", name |-> "", code |-> c]
TNone == [k |-> "null", name |-> "", code |-> 0]
Tipologie == {TName("Hotel"), TName("Residence"), TName("Unknown Type"), TCode(204), TNone}

Row(id, name, cat) == [propertyIDs |-> id, property_name |-> name, category |-> cat]

\* The rows property_types.py inserts into Property_Types.
property_types ==
    { Row(201, "Appartamenti", "APT"), Row(204, "Hotel", "HTL"),
      Row(208, "Bed & Breakfast", "APT"), Row(220, "Case vacanze", "APT"),
      Row(216, "Affittacamere", "APT"), Row(213, "Ville", "APT"),
      Row(223, "Case di campagna", "APT"), Row(203, "Ostelli", "APT"),
      Row(210, "Agriturismi", "APT"), Row(228, "Chalet", "APT"),
      Row(222, "Alloggi in famiglia/Homestays", "APT"),
      Row(224, "Campeggi di lusso", "APT"), Row(212, "Villaggi turistici", "HTL"),
      Row(205, "Motel", "HTL"), Row(206, "Resort", "HTL"),
      Row(219, "Residence", "HTL"), Row(218, "Locande", "HTL") }

\* The list seed_full.py carries in memory.
full_property_types ==
    { Row(201, "Appartamenti", "APT"), Row(204, "Hotel", "HTL"),
      Row(208, "Bed & Breakfast", "APT"), Row(220, "Case vacanze", "APT"),
      Row(216, "Affittacamere", "APT"), Row(213, "Ville", "APT"),
      Row(223, "Case di campagna", "APT"), Row(203, "Ostelli", "APT"),
      Row(210, "Agriturismi", "APT"), Row(228, "Chalet", "APT"),
      Row(222, "Alloggi in famiglia/Homestays", "APT"),
      Row(224, "Campeggi di lusso", "APT"), Row(212, "Villaggi turistici", "HTL"),
      Row(205, "Motel", "HTL"), Row(206, "Resort", "HTL"),
      Row(219, "Residence", "APT"), Row(218, "Locande", "HTL") }

\* property_types_map = {item["property_name"]: item["category"] ...}
property_types_map ==
    [n \in {r.property_name : r \in full_property_types} |->
        (CHOOSE r \in full_property_types : r.property_name = n).category]

\* ---- ObjectId <-> str ----
OidStr(o) == [hex |-> o]             \* str(doc["_id"])
ObjectId(s) == Raw("oid", s.hex)     \* ObjectId(record_PropertyId)

\* ---- strings and numbers handed to the scalar parsers ----
\* A string is the sequence of its characters, which are decimal digits, "-", "+",
\* ",", ".", " ", a letter "x", and "P", which stands for the substring
\* 'Punteggio di ' taken as one unit.
Chars == {"0", "5", "8", "-", ",", " ", "P", "x"}
Texts == UNION {[1..n -> Chars] : n \in 0..MaxChars}
Text(s) == Raw("text", s)

\* A float is held as a whole number of units of 10^-MaxChars.
Scale == 10 ^ MaxChars
Float(units) == Raw("float", units)
Inf == Raw("inf", 0)        \* float('inf')
NaN == Raw("nan", 0)        \* float('nan')
Big == Raw("big", 0)        \* an integer above the largest finite float
Map == Raw("map", 0)        \* a nested mapping or list
Values ==
    {None, Inf, NaN, Big, Map}
        \cup {Raw("int", n) : n \in {-5, 0, 8}}
        \cup {Float(-52 * (Scale \div 10)), Float(85 * (Scale \div 10))}
        \cup {Text(s) : s \in Texts}

\* exceptions of the conversions
ValueError == Raw("ValueError", 0)
TypeError == Raw("TypeError", 0)
OverflowError == Raw("OverflowError", 0)

IsDigit(c) == c \in {"0", "1", "2", "3", "4", "5", "6", "7", "8", "9"}
DigitValue(c) ==
    CASE c = "0" -> 0 [] c = "1" -> 1 [] c = "2" -> 2 [] c = "3" -> 3 [] c = "4" -> 4
      [] c = "5" -> 5 [] c = "6" -> 6 [] c = "7" -> 7 [] c = "8" -> 8 [] c = "9" -> 9
IsSign(c) == c \in {"-", "+"}

\* str.strip(): whitespace removed at both ends
RECURSIVE lstrip(_)
lstrip(s) == IF s # <<>> /\ Head(s) = " " THEN lstrip(Tail(s)) ELSE s
RECURSIVE rstrip(_)
rstrip(s) == IF s # <<>> /\ s[Len(s)] = " " THEN rstrip(SubSeq(s, 1, Len(s) - 1)) ELSE s
strip(s) == rstrip(lstrip(s))

\* str.replace(old, new) for a one-unit old; new is a string
RECURSIVE replace(_, _, _)
replace(s, old, new) ==
    IF s = <<>> THEN <<>>
    ELSE (IF Head(s) = old THEN new ELSE <<Head(s)>>) \o replace(Tail(s), old, new)

\* \d* at position i: the length of the longest run of digits starting there
RECURSIVE DigitRun(_, _)
DigitRun(s, i) == IF i >= 1 /\ i <= Len(s) /\ IsDigit(s[i]) THEN 1 + DigitRun(s, i + 1) ELSE 0

\* the number a string of digits denotes (0 for the empty string)
RECURSIVE Number(_)
Number(ds) ==
    IF ds = <<>> THEN 0 ELSE 10 * Number(SubSeq(ds, 1, Len(ds) - 1)) + DigitValue(ds[Len(ds)])

Signum(t) == IF t # <<>> /\ t[1] = "-" THEN -1 ELSE 1
Unsigned(t) == IF t # <<>> /\ IsSign(t[1]) THEN Tail(t) ELSE t

\* int(<str>): surrounding whitespace, an optional sign, one or more digits
int_of_text(s) ==
    LET t == strip(s)
        body == Unsigned(t)
    IN IF body # <<>> /\ DigitRun(body, 1) = Len(body)
       THEN Raw("int", Signum(t) * Number(body))
       ELSE ValueError

\* float(<str>): surrounding whitespace, an optional sign, then digits with an
\* optional "." and fraction, or "." and a fraction
float_of_text(s) ==
    LET t == strip(s)
        body == Unsigned(t)
        n == DigitRun(body, 1)
        whole == SubSeq(body, 1, n)
        dotted == n < Len(body) /\ body[n + 1] = "."
        frac == SubSeq(body, n + 2, Len(body))
    IN IF \/ (n >= 1 /\ n = Len(body))
          \/ (dotted /\ DigitRun(body, n + 2) = Len(frac) /\ (n >= 1 \/ frac # <<>>))
       THEN Float(Signum(t) * (Number(whole) * Scale
                               + Number(frac) * 10 ^ (MaxChars - Len(frac))))
       ELSE ValueError

\* int(val)
int(val) ==
    CASE val.k = "int"   -> val
      [] val.k = "big"   -> val
      [] val.k = "str"   -> Raw("int", val.v)        \* the decimal string of v
      [] val.k = "text"  -> int_of_text(val.v)
      [] val.k = "float" -> Raw("int", IF val.v < 0 THEN -((-val.v) \div Scale)
                                                   ELSE val.v \div Scale)
      [] val.k = "inf"   -> OverflowError
      [] val.k \in {"nan", "hex"} -> ValueError
      [] OTHER           -> TypeError                \* None, a mapping

\* float(val)
float(val) ==
    CASE val.k = "int"   -> Float(val.v * Scale)
      [] val.k = "big"   -> OverflowError
      [] val.k = "str"   -> Float(val.v * Scale)
      [] val.k = "text"  -> float_of_text(val.v)
      [] val.k \in {"float", "inf", "nan"} -> val
      [] val.k = "hex"   -> ValueError
      [] OTHER           -> TypeError

\* try: ... except (ValueError, TypeError): return None
\* Any other exception leaves the function.
Except(r) ==
    CASE r \in {ValueError, TypeError} -> None
      [] r = OverflowError             -> Raised
      [] OTHER                         -> r

\* no try: every exception leaves the function
Uncaught(r) == IF r \in {ValueError, TypeError, OverflowError} THEN Raised ELSE r

\* str(n) of an integer: "-" for a negative one, then the decimal digits
DigitChar(d) ==
    CASE d = 0 -> "0" [] d = 1 -> "1" [] d = 2 -> "2" [] d = 3 -> "3" [] d = 4 -> "4"
      [] d = 5 -> "5" [] d = 6 -> "6" [] d = 7 -> "7" [] d = 8 -> "8" [] d = 9 -> "9"
RECURSIVE Digits(_)
Digits(n) == IF n < 10 THEN <<DigitChar(n)>> ELSE Append(Digits(n \div 10), DigitChar(n % 10))
str(n) == IF n < 0 THEN <<"-">> \o Digits(-n) ELSE Digits(n)

IsEmptyStr(val) == val = Text(<<>>)

\* ---- scalar parsers ----
\* parsers.parse_int: None for '' / None; int(val); ValueError and TypeError give
\* None; int(float('inf')) raises OverflowError, which is not caught.
parse_int(val) ==
    IF IsEmptyStr(val) \/ val = None THEN None ELSE Except(int(val))

\* seed_properties.parse_int: int(val) under the same except clause.
properties_parse_int(val) == Except(int(val))

\* parsers.parse_float
parse_float(val) ==
    IF IsEmptyStr(val) \/ val = None THEN None
    ELSE IF val.k = "text"
         THEN Except(float(Text(replace(strip(replace(val.v, "P", <<>>)), ",", <<".">>))))
         ELSE Except(float(val))

\* re.search(r"[-+]?\d*\.\d+|\d+", s): the leftmost match, the first alternative
\* before the second; <<>> stands for no match.
Alt1End(s, i) ==
    LET j == IF IsSign(s[i]) THEN i + 1 ELSE i
        dot == j + DigitRun(s, j)
        f == DigitRun(s, dot + 1)
    IN IF dot <= Len(s) /\ s[dot] = "." /\ f >= 1 THEN dot + f ELSE 0
Alt2End(s, i) == IF DigitRun(s, i) >= 1 THEN i + DigitRun(s, i) - 1 ELSE 0
MatchEnd(s, i) == IF Alt1End(s, i) # 0 THEN Alt1End(s, i) ELSE Alt2End(s, i)
search_number(s) ==
    LET starts == {i \in 1..Len(s) : MatchEnd(s, i) # 0}
    IN IF starts = {} THEN <<>>
       ELSE LET i == CHOOSE a \in starts : \A b \in starts : a <= b
            IN SubSeq(s, i, MatchEnd(s, i))

\* seed_properties.parse_float (no try): a number as float(val); a string by the
\* first number found in it; anything else None.
properties_parse_float(val) ==
    IF val.k \in {"int", "big", "float", "inf", "nan"} THEN Uncaught(float(val))
    ELSE IF val.k = "text"
         THEN LET match == search_number(replace(val.v, ",", <<".">>))
              IN IF match # <<>> THEN Uncaught(float(Text(match))) ELSE None
         ELSE None

\* seed_bar.parse_float: the same text as seed_properties.parse_float.
bar_parse_float(val) ==
    IF val.k \in {"int", "big", "float", "inf", "nan"} THEN Uncaught(float(val))
    ELSE IF val.k = "text"
         THEN LET match == search_number(replace(val.v, ",", <<".">>))
              IN IF match # <<>> THEN Uncaught(float(Text(match))) ELSE None
         ELSE None

\* ---- parsers.parse_date ----
\* Values handed to parse_date: the string "<y>-<m>-<d>" of three digit groups
\* (kind "ymd"), the string "<name> <y>" (kind "month"), another string, a
\* date, a datetime, None, a number.
YmdText(y, m, d) == Raw("ymd", <<y, m, d>>)
MonthText(name, y) == Raw("month", <<name, y>>)
Date(y, m, d) == Raw("date", <<y, m, d>>)
Datetime(y, m, d, hh, mm) == Raw("datetime", <<y, m, d, hh, mm>>)

IsLeap(y) == (y % 4 = 0 /\ y % 100 # 0) \/ y % 400 = 0
DaysIn(y, m) ==
    CASE m = 2 -> IF IsLeap(y) THEN 29 ELSE 28
      [] m \in {4, 6, 9, 11} -> 30
      [] OTHER -> 31
ValidDate(y, m, d) == m \in 1..12 /\ d \in 1..DaysIn(y, m)

Years == {2024, 2025}
Months == {1, 2, 12, 13}
Days == {0, 15, 29, 30}
MonthWords == {"gennaio", "dicembre", "january", "gennaio2"}
DateInputs ==
    {None, Raw("int", 8), Text(<<>>), Text(<<"x">>)}
        \cup {YmdText(y, m, d) : y \in Years, m \in Months, d \in Days}
        \cup {MonthText(w, y) : w \in MonthWords, y \in Years}
        \cup {Date(t[1], t[2], t[3]) :
                  t \in {u \in Years \X {1, 2} \X {15, 29} : ValidDate(u[1], u[2], u[3])}}
        \cup {Datetime(2025, 1, 15, hh, 30) : hh \in {0, 10}}

\* month names of a locale (%B), in calendar order
MonthNames(lc) ==
    IF lc = "it_IT.UTF-8"
    THEN <<"gennaio", "febbraio", "marzo", "aprile", "maggio", "giugno", "luglio",
           "agosto", "settembre", "ottobre", "novembre", "dicembre">>
    ELSE <<"january", "february", "march", "april", "may", "june", "july",
           "august", "september", "october", "november", "december">>

\* datetime.strptime(s, "%Y-%m-%d")
strptime_ymd(s) ==
    IF s.k = "ymd" /\ ValidDate(s.v[1], s.v[2], s.v[3])
    THEN Datetime(s.v[1], s.v[2], s.v[3], 0, 0)
    ELSE ValueError

\* datetime.strptime(s, "%B %Y") under the time locale lc
strptime_month(s, lc) ==
    IF s.k = "month" /\ \E i \in 1..12 : MonthNames(lc)[i] = s.v[1]
    THEN Datetime(s.v[2], CHOOSE i \in 1..12 : MonthNames(lc)[i] = s.v[1], 1, 0, 0)
    ELSE ValueError

\* parse_date: the returned value (Raised for an exception that leaves it)
\* and the time locale it leaves behind.  locale.setlocale raises locale.Error,
\* which the except clause does not name, when the locale is not installed.
parse_date(date_input_, lc, installed) ==
    IF date_input_.k \in {"ymd", "month", "text"}
    THEN IF strptime_ymd(date_input_) # ValueError
         THEN [value |-> strptime_ymd(date_input_), LC_TIME |-> lc]
         ELSE IF "it_IT.UTF-8" \notin installed
              THEN [value |-> Raised, LC_TIME |-> lc]
              ELSE [value |-> Except(strptime_month(date_input_, "it_IT.UTF-8")),
                    LC_TIME |-> "it_IT.UTF-8"]
    ELSE IF date_input_.k = "date"
         THEN [value |-> Datetime(date_input_.v[1], date_input_.v[2], date_input_.v[3], 0, 0),
               LC_TIME |-> lc]
         ELSE [value |-> None, LC_TIME |-> lc]      \* no branch taken: falls off the end

\* ---- seed_rooms.parse_occupancy ----
\* A description is a sequence of units: digits, a blank, and the words
\* "Adulti" and "Bambino", each taken as one unit.
Units == {"1", "2", " ", "Adulti", "Bambino"}
Descriptions == UNION {[1..n -> Units] : n \in 0..MaxUnits}
Occupazioni == {None, Raw("int", 4)}       \* parse_int(record.get("Occupazione"))

\* \s* at position i
RECURSIVE SpaceRun(_, _)
SpaceRun(s, i) == IF i >= 1 /\ i <= Len(s) /\ s[i] = " " THEN 1 + SpaceRun(s, i + 1) ELSE 0

\* (\d+)\s*<word> matches at position i
CountAt(s, i, word) ==
    LET w == i + DigitRun(s, i) + SpaceRun(s, i + DigitRun(s, i))
    IN DigitRun(s, i) >= 1 /\ w <= Len(s) /\ s[w] = word

\* (mutated search: the rightmost match)
search_count_last(s, word) ==
    LET starts == {i \in 1..Len(s) : CountAt(s, i, word)}
    IN IF starts = {} THEN <<>>
       ELSE LET i == CHOOSE a \in starts : \A b \in starts : a >= b
            IN SubSeq(s, i, i + DigitRun(s, i) - 1)

\* re.search(r"(\d+)\s*<word>", s): group(1) of the leftmost match, <<>> for no match
search_count(s, word) ==
    LET starts == {i \in 1..Len(s) : CountAt(s, i, word)}
    IN IF starts = {} THEN <<>>
       ELSE LET i == CHOOSE a \in starts : \A b \in starts : a <= b
            IN SubSeq(s, i, i + DigitRun(s, i) - 1)

parse_occupancy(accomodation_type_, occupazione_) ==
    IF accomodation_type_.k # "text" \/ accomodation_type_.v = <<>> THEN <<None, None>>
    ELSE LET adult_match == search_count(accomodation_type_.v, "Adulti")
             kid_match == search_count(accomodation_type_.v, "Bambino")
             occupancy_adult == IF adult_match # <<>> THEN Raw("int", Number(adult_match))
                                ELSE None
             occupancy_kid == IF kid_match # <<>> THEN Raw("int", Number(kid_match))
                              ELSE Raw("int", 0)
         IN IF occupancy_adult = None THEN <<occupazione_, Raw("int", 0)>>
            ELSE <<occupancy_adult, occupancy_kid>>

\* ---- translate_city ----
\* The table of translate_city.py, and its copies in seed_properties.py and
\* seed_bar.py.
CITY_TRANSLATION ==
    [n \in {"Milan", "Rome", "Florence", "Venice", "Naples", "Turin", "Genoa",
             "Bologna", "Palermo", "Bari"} |->
        CASE n = "Milan" -> "Milano" [] n = "Rome" -> "Roma"
          [] n = "Florence" -> "Firenze" [] n = "Venice" -> "Venezia"
          [] n = "Naples" -> "Napoli" [] n = "Turin" -> "Torino"
          [] n = "Genoa" -> "Genova" [] n = "Bologna" -> "Bologna"
          [] n = "Palermo" -> "Palermo" [] n = "Bari" -> "Bari"]
properties_CITY_TRANSLATION ==
    [n \in {"Milan", "Rome", "Florence", "Venice", "Naples", "Turin", "Genoa",
             "Bologna", "Palermo", "Bari"} |->
        CASE n = "Milan" -> "Milano" [] n = "Rome" -> "Roma"
          [] n = "Florence" -> "Firenze" [] n = "Venice" -> "Venezia"
          [] n = "Naples" -> "Napoli" [] n = "Turin" -> "Torino"
          [] n = "Genoa" -> "Genova" [] n = "Bologna" -> "Bologna"
          [] n = "Palermo" -> "Palermo" [] n = "Bari" -> "Bari"]
bar_CITY_TRANSLATION ==
    [n \in {"Milan", "Rome", "Florence", "Venice", "Naples", "Turin", "Genoa",
             "Bologna", "Palermo", "Bari"} |->
        CASE n = "Milan" -> "Milano" [] n = "Rome" -> "Roma"
          [] n = "Florence" -> "Firenze" [] n = "Venice" -> "Venezia"
          [] n = "Naples" -> "Napoli" [] n = "Turin" -> "Torino"
          [] n = "Genoa" -> "Genova" [] n = "Bologna" -> "Bologna"
          [] n = "Palermo" -> "Palermo" [] n = "Bari" -> "Bari"]

\* dict.get(key, default)
get(dict, key, default) == IF key \in DOMAIN dict THEN dict[key] ELSE default

\* (mutated lookup: no identity fallback)
bar_translate_city_no_fallback(city_name_) == get(bar_CITY_TRANSLATION, city_name_, "")

translate_city(city_name_) == get(CITY_TRANSLATION, city_name_, city_name_)
properties_translate_city(city_name_) == get(properties_CITY_TRANSLATION, city_name_, city_name_)
bar_translate_city(city_name_) == get(bar_CITY_TRANSLATION, city_name_, city_name_)

CityNames ==
    {"Milan", "Rome", "Florence", "Venice", "Naples", "Turin", "Genoa", "Bologna",
     "Palermo", "Bari",
     "Milano", "Roma", "Firenze", "Venezia", "Napoli", "Torino", "Genova",
     "milan", "rome", "florence", "venice", "naples", "turin", "genoa", "bologna",
     "palermo", "bari", "MILAN", "ROME", "BARI",
     "Unknown City", ""}

\* ---- input records ----
\* complete: "Città" and "Nome" are both non-empty;  id: the record's "id"
\* ("PropertyId" for rooms and reputation);  Tipologia: the structure type;
\* valid: every field not modelled here passes the driver's pydantic model.
Rec(c, i, t, v) == [complete |-> c, id |-> i, Tipologia |-> t, valid |-> v]
NoRecord == Rec(TRUE, None, TNone, TRUE)

Drivers == {"properties", "reviews", "full", "rooms", "reputation", "bar"}

Records(d) ==
    CASE d = "properties" ->
            {Rec(c, i, t, v) : c \in BOOLEAN, i \in RawIds, t \in Tipologie, v \in BOOLEAN}
      [] d = "full" ->
            {Rec(c, i, t, v) : c \in BOOLEAN, i \in RawIds, t \in Tipologie, v \in BOOLEAN}
      [] d = "reviews" ->
            {Rec(TRUE, i, TNone, v) : i \in RawIds, v \in BOOLEAN}
      [] d = "rooms" ->
            {Rec(TRUE, i, TNone, v) : i \in RawIds \cup HexIds, v \in BOOLEAN}
      [] d = "reputation" ->
            {Rec(TRUE, i, TNone, v) : i \in RawIds, v \in BOOLEAN}
      [] d = "bar" ->
            {Rec(c, None, t, v) : c \in BOOLEAN, t \in Tipologie, v \in BOOLEAN}

\* ---- accommodation classifier ----
\* An accommodation-type argument: a string (its whitespace-separated words, in
\* order; "" has none), None, or a non-string value.
Str(ws) == [k |-> "str", words |-> ws]
Absent == [k |-> "null", words |-> <<>>]
NonString == [k |-> "num", words |-> <<>>]
Words == {"Junior", "junior", "Suite", "suite", "studio", "room", "Deluxe", "villa",
          "depandance", "dependance", "Depandance"}
Strings == UNION {[1..n -> Words] : n \in 0..MaxWords}
AccommodationTypes == {Absent, NonString} \cup {Str(ws) : ws \in Strings}

\* str.lower() on one word
LowerWord(w) ==
    CASE w = "Junior" -> "junior"
      [] w = "Suite"  -> "suite"
      [] w = "Deluxe" -> "deluxe"
      [] w = "Depandance" -> "depandance"
      [] OTHER        -> w
\* accommodation_type.lower().split()
LowerSplit(ws) == [i \in DOMAIN ws |-> LowerWord(ws[i])]

\* level_map of extract_accommodation_level.py: key phrase (its words) -> level
level_map ==
    { <<<<"camera">>, "Rooms">>, <<<<"camere">>, "Rooms">>, <<<<"room">>, "Rooms">>,
      <<<<"rooms">>, "Rooms">>, <<<<"studio", "room">>, "Rooms">>,
      <<<<"junior", "suite">>, "Junior Suite">>, <<<<"suite">>, "Suite">>,
      <<<<"appartamento">>, "Apartment">>, <<<<"appartamenti">>, "Apartment">>,
      <<<<"apartment">>, "Apartment">>, <<<<"apartments">>, "Apartment">>,
      <<<<"villa">>, "Villa">>, <<<<"ville">>, "Villa">>, <<<<"villetta">>, "Villa">>,
      <<<<"castello">>, "Villa">>, <<<<"castelli">>, "Villa">>,
      <<<<"castelletto">>, "Villa">>, <<<<"chalet">>, "Villa">>,
      <<<<"depandance">>, "Dependence">>, <<<<"studio">>, "Studio">>,
      <<<<"bungalow">>, "Bungalow">>, <<<<"dormitory">>, "Dormitory">> }

\* level_map of seed_bar.py
bar_level_map ==
    (level_map \ { <<<<"depandance">>, "Dependence">> })
        \cup { <<<<"depandance">>, "Dependance">> }

HasKey(map, phrase) == \E e \in map : e[1] = phrase
Get(map, phrase) == (CHOOSE e \in map : e[1] = phrase)[2]

\* (mutated scan: shortest prefix first)
RECURSIVE ShortestPrefixScan(_, _, _)
ShortestPrefixScan(map, words, n) ==
    LET m == Len(words) - n + 1
    IN IF n = 0 THEN ""
       ELSE IF HasKey(map, SubSeq(words, 1, m)) THEN Get(map, SubSeq(words, 1, m))
       ELSE ShortestPrefixScan(map, words, n - 1)

\* for n in range(len(words), 0, -1): phrase = " ".join(words[:n]) ...
\* "" when the loop ends without a return.
RECURSIVE PrefixScan(_, _, _)
PrefixScan(map, words, n) ==
    IF n = 0 THEN ""
    ELSE IF HasKey(map, SubSeq(words, 1, n)) THEN Get(map, SubSeq(words, 1, n))
    ELSE PrefixScan(map, words, n - 1)

\* (mutated scan: tokens right to left)
RECURSIVE WordScan_FromEnd(_, _, _)
WordScan_FromEnd(map, words, i) ==
    LET j == Len(words) - i + 1
    IN IF i > Len(words) THEN "Other"
       ELSE IF HasKey(map, <<words[j]>>) THEN Get(map, <<words[j]>>)
       ELSE WordScan_FromEnd(map, words, i + 1)

\* (mutated scan: no default after the loop)
RECURSIVE WordScan_NoDefault(_, _, _)
WordScan_NoDefault(map, words, i) ==
    IF i > Len(words) THEN ""
    ELSE IF HasKey(map, <<words[i]>>) THEN Get(map, <<words[i]>>)
    ELSE WordScan_NoDefault(map, words, i + 1)

\* for word in words: if word in level_map: return level_map[word]; return "Other"
RECURSIVE WordScan(_, _, _)
WordScan(map, words, i) ==
    IF i > Len(words) THEN "Other"
    ELSE IF HasKey(map, <<words[i]>>) THEN Get(map, <<words[i]>>)
    ELSE WordScan(map, words, i + 1)

classify(map, arg) ==
    IF arg.k # "str" \/ arg.words = <<>> THEN "Other"
    ELSE LET words == LowerSplit(arg.words)
             byPrefix == PrefixScan(map, words, Len(words))
         IN IF byPrefix # "" THEN byPrefix ELSE WordScan(map, words, 1)

extract_accommodation_level(arg) == classify(level_map, arg)
extract_accomodation_level(arg) == classify(bar_level_map, arg)

\* ---- the store ----
Properties == Properties_HTL \cup Properties_APT

\* collection.find_one({"booking_id": b}): the first matching document, or none.
\* An integer matches the stored integer; a string, null, mapping or float
\* Infinity matches no stored booking_id (every property document has an integer).
Matching(coll, b) == IF b.k = "int" THEN {d \in coll : d.booking_id = b.v} ELSE {}
First(docs) == CHOOSE d \in docs : \A e \in docs : d._id <= e._id

InitStoresHTL == { {}, {[_id |-> 1, booking_id |-> 1, type_structure |-> "Hotel"]} }
InitStoresAPT == { {}, {[_id |-> 2, booking_id |-> 1, type_structure |-> "Appartamenti"]} }

\* Nothing has been called yet: each pure function's argument and result.
ClassifierIdle == accommodation_type = Absent /\ level = "none" /\ bar_level = "none"
ScalarsIdle == input = None /\ parser = "none" /\ parsed = None
\* The interpreter starts in the "C" locale; this host has the Italian one.
DatesIdle ==
    /\ date_input = None /\ parsed_date = None
    /\ LC_TIME = "C" /\ locales = {"C", "it_IT.UTF-8"}
OccupanciesIdle == accomodation_type = None /\ occupazione = None /\ occupancy = <<>>
CitiesIdle == city_name = "" /\ translator = "none" /\ translated = ""
DocumentsIdle == script = "none" /\ candidate = <<>> /\ document = <<>> /\ handed = "none"

\* The store and the drivers' locals before any script has run.
InitDrivers ==
    /\ Properties_HTL \in InitStoresHTL
    /\ Properties_APT \in InitStoresAPT
    /\ Property_Types = property_types      \* property_types.py has loaded the table
    /\ Reviews = {} /\ Rooms = {} /\ Reputation_KPI_Table = {}
    /\ FULL_HTL = {} /\ FULL_APT = {} /\ BAR_HTL = {} /\ BAR_APT = {}
    /\ nextOid = 3
    /\ driver = "none" /\ pc = "idle" /\ N = 0 /\ idx = 0
    /\ success = 0 /\ errors = 0 /\ duplicates = 0
    /\ booking_id_map = <<>>
    /\ skipped_ids = <<>> /\ log = <<>> /\ inserted = 0 /\ hist = <<>>
    /\ record = NoRecord /\ outcome = "none" /\ runs = 0

Init ==
    /\ InitDrivers
    /\ ClassifierIdle /\ ScalarsIdle /\ DatesIdle /\ OccupanciesIdle /\ CitiesIdle /\ DocumentsIdle

\* The scripts are not running; the store is empty.
NoDrivers == InitDrivers /\ Properties_HTL = {} /\ Properties_APT = {}

\* ---- map_booking_ids.get_booking_id_map ----
Put(m, key, val) == [x \in (DOMAIN m) \cup {key} |-> IF x = key THEN val ELSE m[x]]

\* One "for doc in ...find(...)" loop: documents in natural (insertion) order;
\* "if booking_id:" skips a falsy booking_id (0 or missing).
RECURSIVE ScanCollection(_, _)
ScanCollection(m, docs) ==
    IF docs = {} THEN m
    ELSE LET doc == First(docs)
             booking_id == doc.booking_id
         IN ScanCollection(IF booking_id # 0 THEN Put(m, booking_id, OidStr(doc._id)) ELSE m,
                           docs \ {doc})

get_booking_id_map == ScanCollection(ScanCollection(<<>>, Properties_HTL), Properties_APT)

\* ---- property-type decisions ----
\* (mutated decision: a type the table lacks goes to the hotel partition)
PropertiesCategory_DefaultHTL(tipologia) ==
    LET found == CASE tipologia.k = "int" -> {r \in Property_Types : r.propertyIDs = tipologia.code}
                   [] tipologia.k = "str" -> {r \in Property_Types : r.property_name = tipologia.name}
                   [] OTHER -> {}
    IN IF found = {} \/ (CHOOSE r \in found : TRUE).category = "HTL" THEN "HTL" ELSE "APT"

\* seed_properties: find_one in Property_Types by propertyIDs (int) or by
\* property_name (str); HTL only if a document is found with category HTL.
PropertiesCategory(tipologia) ==
    LET found == CASE tipologia.k = "int" -> {r \in Property_Types : r.propertyIDs = tipologia.code}
                   [] tipologia.k = "str" -> {r \in Property_Types : r.property_name = tipologia.name}
                   [] OTHER -> {}
    IN IF found # {} /\ (CHOOSE r \in found : TRUE).category = "HTL" THEN "HTL" ELSE "APT"

\* seed_full: property_types_map.get(tipologia, "APT"); the map is keyed by name.
FullCategory(tipologia) ==
    IF tipologia.k = "str" /\ tipologia.name \in DOMAIN property_types_map
    THEN (IF property_types_map[tipologia.name] = "HTL" THEN "HTL" ELSE "APT")
    ELSE "APT"

\* seed_bar: find_one in Property_Types by property_name, for a str only.
BarCategory(tipologia) ==
    LET found == IF tipologia.k = "str"
                 THEN {r \in Property_Types : r.property_name = tipologia.name} ELSE {}
    IN IF found # {} /\ (CHOOSE r \in found : TRUE).category = "HTL" THEN "HTL" ELSE "APT"

\* ---- record validators (pydantic models) ----
\* TRUE iff constructing the model from the candidate raises no ValidationError.
\* A str field does not accept an int or None; Union[str, ObjectId] accepts a
\* str or an ObjectId only.
PropertiesInfo(rec, booking_id) ==
    rec.valid /\ booking_id.k = "int" /\ rec.Tipologia.k = "str"
ReviewInfo(rec) == rec.valid
FullInfo(rec) == rec.valid /\ rec.Tipologia.k = "str"
RoomInfo(rec, PropertyId) == rec.valid /\ PropertyId.k \in {"str", "oid"}
ReputationKPI(rec, property_fk) == rec.valid /\ property_fk.k = "oid"
\* (mutated model: PropertyId is passed)
BarInfo_WithPropertyId(rec) == rec.valid

\* BarInfo requires PropertyId, which seed_bar never passes.
BarInfo(rec) == FALSE

\* ---- bookkeeping shared by the loops ----
\* One report per iteration (print / logfire / skipped file), in program order.
Report(kind) == log' = Append(log, [i |-> idx + 1, kind |-> kind])

Iteration(rec, out, invalid) ==
    /\ idx' = idx + 1
    /\ record' = rec
    /\ outcome' = out
    /\ hist' = Append(hist, invalid)
    /\ UNCHANGED <<driver, N, booking_id_map, runs, pure>>

\* (mutated rejection path: the record is reported but errors is not incremented)
CountError_Uncounted(rec, out, invalid) ==
    /\ errors' = errors
    /\ Report("error")
    /\ Iteration(rec, out, invalid)
    /\ pc' = pc
    /\ UNCHANGED <<success, duplicates, inserted>>

\* errors += 1; continue
CountError(rec, out, invalid) ==
    /\ errors' = errors + 1
    /\ Report("error")
    /\ Iteration(rec, out, invalid)
    /\ pc' = pc
    /\ UNCHANGED <<success, duplicates, inserted>>

\* an exception leaves the loop: the script dies with a traceback
Abort(rec, invalid) ==
    /\ pc' = "aborted"
    /\ record' = rec
    /\ outcome' = "raised"
    /\ hist' = Append(hist, invalid)
    /\ UNCHANGED <<driver, N, idx, booking_id_map, runs, success, errors, duplicates,
                   inserted, log, skipped_ids, pure>>

\* collection.insert_one(doc); success += 1
CountSuccess(rec) ==
    /\ success' = success + 1
    /\ inserted' = inserted + 1
    /\ Report("inserted")
    /\ Iteration(rec, "inserted", FALSE)
    /\ pc' = pc
    /\ UNCHANGED <<errors, duplicates, skipped_ids>>

\* ---- starting a script: read the file, zero the counters, build the map ----
Start ==
    /\ pc \in {"idle", "done", "aborted"}
    /\ runs < MaxRuns
    /\ \E d \in Drivers, n \in 0..MaxBatch :
          /\ driver' = d
          /\ N' = n
          /\ booking_id_map' = IF d \in {"reviews", "full"} THEN get_booking_id_map ELSE <<>>
    /\ pc' = "loop"
    /\ idx' = 0 /\ success' = 0 /\ errors' = 0 /\ duplicates' = 0
    /\ skipped_ids' = <<>> /\ log' = <<>> /\ inserted' = 0 /\ hist' = <<>>
    /\ record' = NoRecord /\ outcome' = "none"
    /\ runs' = runs + 1
    /\ UNCHANGED <<store, pure>>

\* the loop is exhausted: log and print the import summary
Finish ==
    /\ pc = "loop" /\ idx = N
    /\ pc' = "done"
    /\ UNCHANGED <<store, driver, N, idx, success, errors, duplicates, booking_id_map,
                   skipped_ids, log, inserted, hist, record, outcome, runs, pure>>

\* (mutated duplicate check: Properties_APT is not consulted)
is_duplicate_HTL_only(booking_id) == Matching(Properties_HTL, booking_id) # {}

\* "Check for duplicate booking_id in both collections"
is_duplicate(booking_id) ==
    Matching(Properties_HTL, booking_id) # {} \/ Matching(Properties_APT, booking_id) # {}

\* ---- seed_properties.py main: one iteration of "for record in data" ----
seed_properties ==
    /\ pc = "loop" /\ driver = "properties" /\ idx < N
    /\ \E rec \in Records("properties"), city_id \in BOOLEAN :   \* Cities.find_one
         LET booking_id == properties_parse_int(rec.id)
             invalid == ~PropertiesInfo(rec, booking_id)
         IN
         IF ~rec.complete THEN
              /\ CountError(rec, "incomplete", invalid)
              /\ UNCHANGED <<store, skipped_ids>>
         ELSE IF ~city_id THEN
              /\ CountError(rec, "nocity", invalid)
              /\ UNCHANGED <<store, skipped_ids>>
         ELSE IF booking_id = Raised THEN        \* caught by "except Exception"
              /\ CountError(rec, "exception", invalid)
              /\ UNCHANGED <<store, skipped_ids>>
         ELSE IF is_duplicate(booking_id) THEN
              /\ duplicates' = duplicates + 1
              /\ Report("duplicate")
              /\ Iteration(rec, "duplicate", invalid)
              /\ pc' = pc
              /\ UNCHANGED <<store, success, errors, inserted, skipped_ids>>
         ELSE IF ~PropertiesInfo(rec, booking_id) THEN
              /\ CountError(rec, "invalid", invalid)
              /\ UNCHANGED <<store, skipped_ids>>
         ELSE LET doc == [_id |-> nextOid, booking_id |-> booking_id.v,
                          type_structure |-> rec.Tipologia.name]
              IN /\ IF PropertiesCategory(rec.Tipologia) = "HTL"
                    THEN /\ Properties_HTL' = Properties_HTL \cup {doc}
                         /\ UNCHANGED Properties_APT
                    ELSE /\ Properties_APT' = Properties_APT \cup {doc}
                         /\ UNCHANGED Properties_HTL
                 /\ nextOid' = nextOid + 1
                 /\ CountSuccess(rec)
                 /\ UNCHANGED <<Property_Types, Reviews, Rooms, Reputation_KPI_Table,
                                FULL_HTL, FULL_APT, BAR_HTL, BAR_APT>>

\* ---- seed_reviews.py main: one iteration ----
seed_reviews ==
    /\ pc = "loop" /\ driver = "reviews" /\ idx < N
    /\ \E rec \in Records("reviews") :
         LET booking_id == parse_int(rec.id)
             invalid == ~ReviewInfo(rec)
         IN
         IF booking_id = Raised THEN               \* outside any try
              /\ Abort(rec, invalid)
              /\ UNCHANGED store
         ELSE IF ~(booking_id.k = "int" /\ booking_id.v \in DOMAIN booking_id_map) THEN
              /\ skipped_ids' = Append(skipped_ids, booking_id)
              /\ CountError(rec, "unresolved", invalid)
              /\ UNCHANGED store
         ELSE IF ~ReviewInfo(rec) THEN
              /\ CountError(rec, "invalid", invalid)
              /\ UNCHANGED <<store, skipped_ids>>
         ELSE LET record_PropertyId == booking_id_map[booking_id.v]
                  doc == [_id |-> nextOid, PropertyId |-> ObjectId(record_PropertyId)]
              IN /\ Reviews' = Reviews \cup {doc}
                 /\ nextOid' = nextOid + 1
                 /\ CountSuccess(rec)
                 /\ UNCHANGED <<Properties_HTL, Properties_APT, Property_Types, Rooms,
                                Reputation_KPI_Table, FULL_HTL, FULL_APT, BAR_HTL, BAR_APT>>

\* ---- seed_full.py main: one iteration ----
seed_full ==
    /\ pc = "loop" /\ driver = "full" /\ idx < N
    /\ \E rec \in Records("full") :
         LET booking_id == rec.id                  \* the raw value, no parse_int
             invalid == ~FullInfo(rec)
         IN
         IF ~rec.complete THEN
              /\ CountError(rec, "incomplete", invalid)
              /\ UNCHANGED <<store, skipped_ids>>
         ELSE IF booking_id.k = "map" THEN         \* "in" hashes the key: TypeError
              /\ Abort(rec, invalid)
              /\ UNCHANGED store
         ELSE IF ~(booking_id.k = "int" /\ booking_id.v \in DOMAIN booking_id_map) THEN
              /\ skipped_ids' = Append(skipped_ids, booking_id)
              /\ CountError(rec, "unresolved", invalid)
              /\ UNCHANGED store
         ELSE IF ~FullInfo(rec) THEN
              /\ CountError(rec, "invalid", invalid)
              /\ UNCHANGED <<store, skipped_ids>>
         ELSE LET record_PropertyId == booking_id_map[booking_id.v]
                  doc == [_id |-> nextOid, PropertyId |-> ObjectId(record_PropertyId),
                          Type |-> rec.Tipologia.name]
              IN /\ IF FullCategory(rec.Tipologia) = "HTL"
                    THEN /\ FULL_HTL' = FULL_HTL \cup {doc}
                         /\ UNCHANGED FULL_APT
                    ELSE /\ FULL_APT' = FULL_APT \cup {doc}
                         /\ UNCHANGED FULL_HTL
                 /\ nextOid' = nextOid + 1
                 /\ CountSuccess(rec)
                 /\ UNCHANGED <<Properties_HTL, Properties_APT, Property_Types, Reviews,
                                Rooms, Reputation_KPI_Table, BAR_HTL, BAR_APT>>

\* ---- seed_rooms.py seed_rooms: one iteration ----
\* "if not booking_id": None, 0 and "" are falsy.
\* ObjectId.is_valid holds of a 24-hex string only.
seed_rooms ==
    /\ pc = "loop" /\ driver = "rooms" /\ idx < N
    /\ \E rec \in Records("rooms") :
         LET booking_id == rec.id                  \* record.get("PropertyId")
             PropertyId == IF booking_id.k = "hex" THEN Raw("oid", booking_id.v)
                           ELSE booking_id
             invalid == ~RoomInfo(rec, PropertyId)
         IN
         IF booking_id.k = "null" \/ (booking_id.k = "int" /\ booking_id.v = 0) THEN
              /\ CountError(rec, "missing", invalid)
              /\ UNCHANGED <<store, skipped_ids>>
         ELSE IF ~RoomInfo(rec, PropertyId) THEN
              /\ CountError(rec, "invalid", invalid)
              /\ UNCHANGED <<store, skipped_ids>>
         ELSE LET doc == [_id |-> nextOid, PropertyId |-> PropertyId]
              IN /\ Rooms' = Rooms \cup {doc}
                 /\ nextOid' = nextOid + 1
                 /\ CountSuccess(rec)
                 /\ UNCHANGED <<Properties_HTL, Properties_APT, Property_Types, Reviews,
                                Reputation_KPI_Table, FULL_HTL, FULL_APT, BAR_HTL, BAR_APT>>

\* ---- seed_reputation.py main: one iteration ----
seed_reputation ==
    /\ pc = "loop" /\ driver = "reputation" /\ idx < N
    /\ \E rec \in Records("reputation") :
         LET booking_id == rec.id                  \* record.get("PropertyId")
             found == IF Matching(Properties_HTL, booking_id) # {}
                      THEN Matching(Properties_HTL, booking_id)
                      ELSE Matching(Properties_APT, booking_id)
             property_fk == IF found # {} THEN Raw("oid", First(found)._id) ELSE None
             invalid == ~ReputationKPI(rec, property_fk)
         IN
         IF ~ReputationKPI(rec, property_fk) THEN
              /\ CountError(rec, "invalid", invalid)
              /\ UNCHANGED <<store, skipped_ids>>
         ELSE LET doc == [_id |-> nextOid, PropertyId |-> property_fk]
              IN /\ Reputation_KPI_Table' = Reputation_KPI_Table \cup {doc}
                 /\ nextOid' = nextOid + 1
                 /\ CountSuccess(rec)
                 /\ UNCHANGED <<Properties_HTL, Properties_APT, Property_Types, Reviews,
                                Rooms, FULL_HTL, FULL_APT, BAR_HTL, BAR_APT>>

\* ---- seed_bar.py main: one iteration (success is never incremented) ----
seed_bar ==
    /\ pc = "loop" /\ driver = "bar" /\ idx < N
    /\ \E rec \in Records("bar") :
         LET invalid == ~BarInfo(rec)
         IN
         IF ~rec.complete THEN
              /\ CountError(rec, "incomplete", invalid)
              /\ UNCHANGED <<store, skipped_ids>>
         ELSE IF ~BarInfo(rec) THEN
              /\ CountError(rec, "invalid", invalid)
              /\ UNCHANGED <<store, skipped_ids>>
         ELSE LET doc == [_id |-> nextOid, Type |-> rec.Tipologia.name]
              IN /\ IF BarCategory(rec.Tipologia) = "HTL"
                    THEN /\ BAR_HTL' = BAR_HTL \cup {doc}
                         /\ UNCHANGED BAR_APT
                    ELSE /\ BAR_APT' = BAR_APT \cup {doc}
                         /\ UNCHANGED BAR_HTL
                 /\ nextOid' = nextOid + 1
                 /\ inserted' = inserted + 1
                 /\ Iteration(rec, "inserted", FALSE)
                 /\ pc' = pc
                 /\ UNCHANGED <<success, errors, duplicates, log, skipped_ids>>
                 /\ UNCHANGED <<Properties_HTL, Properties_APT, Property_Types, Reviews,
                                Rooms, Reputation_KPI_Table, FULL_HTL, FULL_APT>>

\* ---- the classifier on its own: pick an argument, call either variant ----
read_accommodation_type ==
    /\ level # "none" /\ bar_level # "none"      \* the previous calls have returned
    /\ \E a \in AccommodationTypes : accommodation_type' = a
    /\ level' = "none" /\ bar_level' = "none"
    /\ UNCHANGED <<store, local, scalars, dates, occupancies, cities, documents>>

call_extract_accommodation_level ==
    /\ level = "none"
    /\ level' = extract_accommodation_level(accommodation_type)
    /\ UNCHANGED <<store, local, accommodation_type, bar_level, scalars, dates, occupancies, cities, documents>>

call_extract_accomodation_level ==
    /\ bar_level = "none"
    /\ bar_level' = extract_accomodation_level(accommodation_type)
    /\ UNCHANGED <<store, local, accommodation_type, level, scalars, dates, occupancies, cities, documents>>

\* ---- the scalar parsers on their own: one call on one value ----
call_parse_int ==
    /\ parser = "none"
    /\ parser' = "parse_int" /\ parsed' = parse_int(input)
    /\ UNCHANGED <<store, local, classifier, input, dates, occupancies, cities, documents>>

call_properties_parse_int ==
    /\ parser = "none"
    /\ parser' = "seed_properties.parse_int" /\ parsed' = properties_parse_int(input)
    /\ UNCHANGED <<store, local, classifier, input, dates, occupancies, cities, documents>>

call_parse_float ==
    /\ parser = "none"
    /\ parser' = "parse_float" /\ parsed' = parse_float(input)
    /\ UNCHANGED <<store, local, classifier, input, dates, occupancies, cities, documents>>

call_properties_parse_float ==
    /\ parser = "none"
    /\ parser' = "seed_properties.parse_float" /\ parsed' = properties_parse_float(input)
    /\ UNCHANGED <<store, local, classifier, input, dates, occupancies, cities, documents>>

call_bar_parse_float ==
    /\ parser = "none"
    /\ parser' = "seed_bar.parse_float" /\ parsed' = bar_parse_float(input)
    /\ UNCHANGED <<store, local, classifier, input, dates, occupancies, cities, documents>>

NextParsers ==
    \/ call_parse_int \/ call_properties_parse_int
    \/ call_parse_float \/ call_properties_parse_float \/ call_bar_parse_float

InitParsers ==
    /\ NoDrivers
    /\ input \in Values /\ parser = "none" /\ parsed = None
    /\ ClassifierIdle /\ DatesIdle /\ OccupanciesIdle /\ CitiesIdle /\ DocumentsIdle

SpecParsers == InitParsers /\ [][NextParsers]_vars

\* ---- parse_date on its own: any number of calls in one process ----
call_parse_date ==
    \E d \in DateInputs :
        /\ date_input' = d
        /\ parsed_date' = parse_date(d, LC_TIME, locales).value
        /\ LC_TIME' = parse_date(d, LC_TIME, locales).LC_TIME
        /\ UNCHANGED <<store, local, classifier, scalars, locales, occupancies, cities, documents>>

NextDates == call_parse_date

InitDates ==
    /\ NoDrivers
    /\ date_input = None /\ parsed_date = None /\ LC_TIME = "C"
    /\ locales \in {{"C"}, {"C", "it_IT.UTF-8"}}
    /\ ClassifierIdle /\ ScalarsIdle /\ OccupanciesIdle /\ CitiesIdle /\ DocumentsIdle

SpecDates == InitDates /\ [][NextDates]_vars

\* ---- parse_occupancy on its own: one call on one description ----
call_parse_occupancy ==
    /\ occupancy = <<>>
    /\ occupancy' = parse_occupancy(accomodation_type, occupazione)
    /\ UNCHANGED <<store, local, classifier, scalars, dates, accomodation_type,
                   occupazione, cities, documents>>

NextOccupancy == call_parse_occupancy

InitOccupancy ==
    /\ NoDrivers
    /\ accomodation_type \in {None, Raw("int", 8)} \cup {Text(s) : s \in Descriptions}
    /\ occupazione \in Occupazioni
    /\ occupancy = <<>>
    /\ ClassifierIdle /\ ScalarsIdle /\ DatesIdle /\ CitiesIdle /\ DocumentsIdle

SpecOccupancy == InitOccupancy /\ [][NextOccupancy]_vars

\* ---- translate_city on its own: one call of one copy on one name ----
call_translate_city ==
    /\ translator = "none"
    /\ translator' = "translate_city" /\ translated' = translate_city(city_name)
    /\ UNCHANGED <<store, local, classifier, scalars, dates, occupancies, city_name, documents>>

call_properties_translate_city ==
    /\ translator = "none"
    /\ translator' = "seed_properties.translate_city"
    /\ translated' = properties_translate_city(city_name)
    /\ UNCHANGED <<store, local, classifier, scalars, dates, occupancies, city_name, documents>>

call_bar_translate_city ==
    /\ translator = "none"
    /\ translator' = "seed_bar.translate_city"
    /\ translated' = bar_translate_city(city_name)
    /\ UNCHANGED <<store, local, classifier, scalars, dates, occupancies, city_name, documents>>

NextCities ==
    \/ call_translate_city \/ call_properties_translate_city \/ call_bar_translate_city

InitCities ==
    /\ NoDrivers
    /\ city_name \in CityNames /\ translator = "none" /\ translated = ""
    /\ ClassifierIdle /\ ScalarsIdle /\ DatesIdle /\ OccupanciesIdle /\ DocumentsIdle

SpecCities == InitCities /\ [][NextCities]_vars

NextLevel ==
    \/ read_accommodation_type
    \/ call_extract_accommodation_level
    \/ call_extract_accomodation_level

InitLevel == Init /\ Properties_HTL = {} /\ Properties_APT = {}

SpecLevel == InitLevel /\ [][NextLevel]_vars

Next ==
    \/ Start \/ Finish
    \/ seed_properties \/ seed_reviews \/ seed_full
    \/ seed_rooms \/ seed_reputation \/ seed_bar

Spec == Init /\ [][Next]_vars

\* ---- building the booking-id map over any content of the two partitions ----
\* A partition as the map builder may find it: each of the given documents is
\* there or not, with any booking identifier (the same one twice included).
PartitionContents(oids, t) ==
    UNION {{{[_id |-> o, booking_id |-> b[o], type_structure |-> t] : o \in S} :
             b \in [S -> BookingIds]} : S \in SUBSET oids}

InitMap ==
    /\ Properties_HTL \in PartitionContents({1, 3}, "Hotel")
    /\ Properties_APT \in PartitionContents({2, 4}, "Appartamenti")
    /\ Property_Types = property_types
    /\ Reviews = {} /\ Rooms = {} /\ Reputation_KPI_Table = {}
    /\ FULL_HTL = {} /\ FULL_APT = {} /\ BAR_HTL = {} /\ BAR_APT = {}
    /\ nextOid = 5
    /\ driver = "none" /\ pc = "idle" /\ N = 0 /\ idx = 0
    /\ success = 0 /\ errors = 0 /\ duplicates = 0
    /\ booking_id_map = <<>>
    /\ skipped_ids = <<>> /\ log = <<>> /\ inserted = 0 /\ hist = <<>>
    /\ record = NoRecord /\ outcome = "none" /\ runs = 0
    /\ ClassifierIdle /\ ScalarsIdle /\ DatesIdle /\ OccupanciesIdle /\ CitiesIdle /\ DocumentsIdle

\* a script starts (and builds the map); a script given an empty file ends
NextMap == Start \/ Finish

SpecMap == InitMap /\ [][NextMap]_vars

\* ---- the try block of an import script: raw record -> model -> doc ----
\* A record is a function from the keys it has to their raw values.  Of each
\* model, the fields below are followed; the others are taken to hold valid
\* values, and PropertyId to be resolved.
SomeText == Text(<<"x">>)
DateA == YmdText(2025, 1, 15)
DateB == YmdText(2024, 2, 29)

Scripts == {"full", "reviews", "properties", "rooms", "reputation"}

Candidates(s) ==
    CASE s = "full" ->
            {("Tipologia" :> t) @@ ("RoomsLeft" :> r) @@ ("OfferTitle" :> o)
                 @@ ("DataRicerca" :> d) @@ ("FullDataRicerca" :> f) :
               t \in {None, SomeText},
               r \in {None, Raw("int", 0), Raw("int", 8), Text(<<"0">>), Text(<<"5">>)},
               o \in {None, SomeText},
               d \in {None, DateA},
               f \in {None, Text(<<>>), DateB}}
      [] s = "reviews" ->
            {("Nome" :> n) @@ ("Commento Positivo" :> c) @@ ("Data" :> d)
                 @@ ("DataRecensione" :> r) :
               n \in {None, SomeText}, c \in {None, SomeText},
               d \in {None, DateA}, r \in {None, Text(<<>>), DateB}}
      [] s = "properties" ->
            {("Nome" :> n) @@ ("Stelle" :> st) :
               n \in {None, SomeText}, st \in {None, Raw("int", 0), Text(<<"5">>)}}
            \cup
            {("Nome" :> n) @@ ("Stelle" :> st) @@ ("Zona" :> z) :
               n \in {None, SomeText}, st \in {None, Raw("int", 0), Text(<<"5">>)},
               z \in {None, SomeText}}
      [] s = "rooms" ->
            {("roomName" :> n) @@ ("roomSize" :> z) @@ ("BedDesc" :> b)
                 @@ ("FullDateSearch" :> f) :
               n \in {None, SomeText}, z \in {None, Raw("int", 0), Text(<<"x">>)},
               b \in {None, SomeText}, f \in {None, DateA}}
      [] s = "reputation" ->
            {("Valutazione" :> v) @@ ("Score" :> sc) @@ ("DataRicerca" :> d)
                 @@ ("FullDataRicerca" :> f) :
               v \in {None, SomeText, Raw("int", 8)},
               sc \in {None, Raw("int", 0), Text(<<"x">>)},
               d \in {None, DateA, DateB},
               f \in {None, Text(<<>>), DateA, DateB}}

\* Python truth value of a raw value, and "x or None"
Truthy(v) == v \notin {None, Raw("int", 0), Text(<<>>), Float(0)}
or_None(v) == IF v = Raised \/ Truthy(v) THEN v ELSE None

\* pydantic field types
IsStr(v) == v.k \in {"text", "ymd", "month"}
IsInt(v) == v.k = "int"
IsDatetime(v) == v.k = "datetime"
Required(type) == [type |-> type, optional |-> FALSE]
Optional(type) == [type |-> type, optional |-> TRUE]
Accepts(field, v) ==
    \/ field.optional /\ v = None
    \/ field.type = "str" /\ IsStr(v)
    \/ field.type = "int" /\ IsInt(v)
    \/ field.type = "datetime" /\ IsDatetime(v)

FullInfo_fields ==
    ("Type" :> Required("str")) @@ ("RoomsBARLeft" :> Optional("int"))
        @@ ("OfferTitle" :> Optional("str")) @@ ("DateSearch" :> Required("datetime"))
        @@ ("FullDateSearch" :> Required("datetime"))
ReviewInfo_fields ==
    ("NameReviewer" :> Required("str")) @@ ("Positive" :> Optional("str"))
        @@ ("StayingDate" :> Required("datetime")) @@ ("ReviewDate" :> Optional("datetime"))
PropertiesInfo_fields ==
    ("name" :> Required("str")) @@ ("stars" :> Required("int")) @@ ("zone" :> Optional("str"))
RoomInfo_fields ==
    ("roomName" :> Required("str")) @@ ("roomSize" :> Optional("int"))
        @@ ("BedDesc" :> Optional("str")) @@ ("FullDateSearch" :> Required("datetime"))
ReputationKPI_fields ==
    ("Valuation" :> Optional("str")) @@ ("Score" :> Optional("int"))
        @@ ("FullDateSearch" :> Required("datetime")) @@ ("DateSearch" :> Required("datetime"))

Fields(s) ==
    CASE s = "full" -> FullInfo_fields
      [] s = "reviews" -> ReviewInfo_fields
      [] s = "properties" -> PropertiesInfo_fields
      [] s = "rooms" -> RoomInfo_fields
      [] s = "reputation" -> ReputationKPI_fields

\* Two parse_date calls in the order the keyword arguments are evaluated; the
\* second starts from the locale the first left.  A raise ends the evaluation.
ThenParseDate(first, date_input_) ==
    IF first.value = Raised THEN first
    ELSE parse_date(date_input_, first.LC_TIME, locales)

\* The keyword arguments of each constructor call, and the locale left behind.
FullInfo_kwargs(rec) ==
    LET ds == parse_date(get(rec, "DataRicerca", None), LC_TIME, locales)
        fds == IF Truthy(get(rec, "FullDataRicerca", None))
               THEN ThenParseDate(ds, get(rec, "FullDataRicerca", None))
               ELSE ThenParseDate(ds, get(rec, "DataRicerca", None))
    IN [kwargs |-> ("Type" :> get(rec, "Tipologia", None))
                   @@ ("RoomsBARLeft" :> or_None(parse_int(get(rec, "RoomsLeft", None))))
                   @@ ("OfferTitle" :> get(rec, "OfferTitle", None))
                   @@ ("DateSearch" :> ds.value)
                   @@ ("FullDateSearch" :> fds.value),
        LC_TIME |-> fds.LC_TIME]

ReviewInfo_kwargs(rec) ==
    LET sd == parse_date(get(rec, "Data", None), LC_TIME, locales)
        rd == ThenParseDate(sd, get(rec, "DataRecensione", None))
    IN [kwargs |-> ("NameReviewer" :> get(rec, "Nome", None))
                   @@ ("Positive" :> get(rec, "Commento Positivo", None))
                   @@ ("StayingDate" :> sd.value)
                   @@ ("ReviewDate" :> rd.value),
        LC_TIME |-> rd.LC_TIME]

PropertiesInfo_kwargs(rec) ==
    [kwargs |-> ("name" :> get(rec, "Nome", None))
                @@ ("stars" :> parse_int(get(rec, "Stelle", None)))
                @@ ("zone" :> IF "Zona" \in DOMAIN rec THEN get(rec, "Zona", None) ELSE None),
     LC_TIME |-> LC_TIME]

RoomInfo_kwargs(rec) ==
    LET fds == parse_date(get(rec, "FullDateSearch", None), LC_TIME, locales)
    IN [kwargs |-> ("roomName" :> get(rec, "roomName", None))
                   @@ ("roomSize" :> parse_int(get(rec, "roomSize", None)))
                   @@ ("BedDesc" :> get(rec, "BedDesc", None))
                   @@ ("FullDateSearch" :> fds.value),
        LC_TIME |-> fds.LC_TIME]

ReputationKPI_kwargs(rec) ==
    LET fds == parse_date(get(rec, "DataRicerca", None), LC_TIME, locales)
        ds == ThenParseDate(fds, get(rec, "FullDataRicerca", None))
    IN [kwargs |-> ("Valuation" :> get(rec, "Valutazione", None))
                   @@ ("Score" :> parse_int(get(rec, "Score", None)))
                   @@ ("FullDateSearch" :> fds.value)
                   @@ ("DateSearch" :> ds.value),
        LC_TIME |-> ds.LC_TIME]

\* BaseModel.__init__: an argument that raised, or a value its field does not
\* accept, ends in the except branch.
Validates(fields, kwargs) ==
    \A f \in DOMAIN fields : kwargs[f] # Raised /\ Accepts(fields[f], kwargs[f])

\* (mutated dump: plain model_dump(), as property_types.py calls it)
model_dump_keep_none(model) == model

\* model.model_dump(exclude_none=True)
model_dump(model) == [f \in {g \in DOMAIN model : model[g] # None} |-> model[f]]

\* The rest of the try block: validate the model, dump it, hand the doc to
\* insert_one; any exception goes to the except branch.
Build(fields, built) ==
    /\ handed = "none"
    /\ LC_TIME' = built.LC_TIME
    /\ IF Validates(fields, built.kwargs)
       THEN document' = model_dump(built.kwargs) /\ handed' = "inserted"
       ELSE document' = document /\ handed' = "rejected"
    /\ UNCHANGED <<store, local, classifier, scalars, date_input, parsed_date, locales,
                   occupancies, cities, script, candidate>>

\* One pass through the try block of each script.
full_document ==
    /\ script = "full"
    /\ Build(FullInfo_fields, FullInfo_kwargs(candidate))

review_document ==
    /\ script = "reviews"
    /\ Build(ReviewInfo_fields, ReviewInfo_kwargs(candidate))

property_document ==
    /\ script = "properties"
    /\ Build(PropertiesInfo_fields, PropertiesInfo_kwargs(candidate))

room_document ==
    /\ script = "rooms"
    /\ Build(RoomInfo_fields, RoomInfo_kwargs(candidate))

reputation_document ==
    /\ script = "reputation"
    /\ Build(ReputationKPI_fields, ReputationKPI_kwargs(candidate))

NextDocuments ==
    \/ full_document \/ review_document \/ property_document
    \/ room_document \/ reputation_document

InitDocuments ==
    /\ NoDrivers
    /\ script \in Scripts
    /\ candidate \in Candidates(script)
    /\ document = <<>> /\ handed = "none"
    /\ ClassifierIdle /\ ScalarsIdle /\ DatesIdle /\ OccupanciesIdle /\ CitiesIdle

SpecDocuments == InitDocuments /\ [][NextDocuments]_vars

\* ======================= properties checked =======================

IsError(e) == e.kind = "error"
IsDuplicate(e) == e.kind = "duplicate"
IsInserted(e) == e.kind = "inserted"
Rejections == SelectSeq(log, IsError)
\* records of the batch, seen so far, that fail record validation
K == Cardinality({i \in 1..Len(hist) : hist[i]})
InInputOrder(reports) ==
    \A i, j \in 1..Len(reports) : i < j => reports[i].i < reports[j].i

\* C1: whatever the records hold, every driver's loop runs over all N records:
\* no record makes an exception escape the loop and stop the batch.
C1_NoRecordStopsBatch == pc # "aborted"

\* documents of a collection that this run inserted
NewIn(coll) == Cardinality({d \in coll : d._id >= nextOid - inserted})

NoDup == \A d, e \in Properties : d.booking_id = e.booking_id => d = e
\* the integer a raw id denotes
StoredId(raw) == raw.k \in {"int", "str"} /\ \E d \in Properties : d.booking_id = raw.v
PropertiesStep == driver = "properties" /\ pc = "loop" /\ idx' = idx + 1
PropertiesUnchanged ==
    Properties_HTL' = Properties_HTL /\ Properties_APT' = Properties_APT

\* C3 (as stated): a property import never makes a booking identifier occur
\* twice in the store, and a record whose booking identifier is already stored
\* is counted as a duplicate and not inserted.
C3_Original ==
    [][ /\ NoDup => NoDup'
        /\ (PropertiesStep /\ StoredId(record'.id)) =>
              (duplicates' = duplicates + 1 /\ PropertiesUnchanged) ]_vars

\* C3 (amended): a property import never makes a booking identifier occur twice
\* in the store; a record whose booking identifier is already stored is not
\* inserted, and it is counted as a duplicate if it has a name and a city and
\* its city is found (otherwise it is counted as an error).
C3_Amended ==
    [][ /\ NoDup => NoDup'
        /\ (PropertiesStep /\ StoredId(record'.id)) =>
              /\ PropertiesUnchanged
              /\ IF record'.complete /\ outcome' # "nocity"
                 THEN duplicates' = duplicates + 1 /\ errors' = errors
                 ELSE duplicates' = duplicates /\ errors' = errors + 1 ]_vars

\* the second record of a batch repeats the booking identifier of the first
C3_Witness ==
    /\ driver = "properties" /\ idx = 2 /\ NoDup
    /\ inserted = 1 /\ duplicates = 1 /\ outcome = "duplicate"
    /\ \E d \in Properties : d._id = nextOid - 1 /\ StoredId(record.id)
                             /\ d.booking_id = record.id.v

\* ---- C4 ----
ExistingProperty(PropertyId) ==
    PropertyId.k = "oid" /\ \E d \in Properties : d._id = PropertyId.v

C5_SamePartition ==
    /\ \A d \in Properties, f \in FULL_HTL \cup FULL_APT :
          d.type_structure = f.Type => (d \in Properties_HTL <=> f \in FULL_HTL)
    /\ \A d \in Properties, b \in BAR_HTL \cup BAR_APT :
          d.type_structure = b.Type => (d \in Properties_HTL <=> b \in BAR_HTL)

\* ---- C6 ----
\* name is in the table with category HTL
FoundHTL(table, name) == \E r \in table : r.property_name = name /\ r.category = "HTL"

C7_CodeLikeName ==
    (/\ driver \in {"properties", "full"}
     /\ outcome \in {"invalid", "inserted"}
     /\ record.Tipologia = TCode(204)
     /\ record.valid /\ record.id.k \in {"int", "str"})
    => /\ outcome = "inserted"
       /\ \E d \in Properties_HTL \cup FULL_HTL : d._id = nextOid - 1

\* ---- C8 ----
\* C8: once the map is built, every booking identifier of a stored property
\* resolves to the internal identifier of a record carrying it, and every other
\* booking identifier resolves to absent.
C8_MapResolves ==
    (pc = "loop" /\ driver \in {"reviews", "full"}) =>
        \A b \in BookingIds :
            IF \E d \in Properties : d.booking_id = b
            THEN /\ b \in DOMAIN booking_id_map
                 /\ \E d \in Properties :
                        d.booking_id = b /\ booking_id_map[b] = OidStr(d._id)
            ELSE b \notin DOMAIN booking_id_map

\* ---- C9 ----
NotAKey(booking_id) ==
    ~(booking_id.k = "int" /\ booking_id.v \in DOMAIN booking_id_map)

\* C9: in the review and full-price imports a record (here: one that has a name
\* and a city) whose booking identifier is not a key of the map is counted as an
\* error, its identifier is written to skipped_ids.txt, nothing is inserted for
\* it, and the loop goes on.
C9_UnresolvedSkipped ==
    (/\ driver \in {"reviews", "full"} /\ outcome # "none" /\ record.complete
     /\ NotAKey(IF driver = "reviews" /\ record.id.k = "str"
                THEN Raw("int", record.id.v) ELSE record.id))
    => /\ pc # "aborted"
       /\ outcome = "unresolved"
       /\ Len(skipped_ids) > 0

\* ---- C10 ----
PrefixKeys(map, words) == {n \in 1..Len(words) : HasKey(map, SubSeq(words, 1, n))}
Longest(S) == CHOOSE n \in S : \A m \in S : m <= n
LevelOfLongestPrefix(map, words) == Get(map, SubSeq(words, 1, Longest(PrefixKeys(map, words))))

\* C10: for a string some prefix of whose lower-cased word sequence is a key of
\* the phrase table, either classifier returns the level of the longest such
\* prefix.
C10_LongestPrefixWins ==
    accommodation_type.k = "str" =>
        LET words == LowerSplit(accommodation_type.words)
        IN /\ (level # "none" /\ PrefixKeys(level_map, words) # {}) =>
                  level = LevelOfLongestPrefix(level_map, words)
           /\ (bar_level # "none" /\ PrefixKeys(bar_level_map, words) # {}) =>
                  bar_level = LevelOfLongestPrefix(bar_level_map, words)

C10_Witness ==
    \/ /\ accommodation_type = Str(<<"Junior", "Suite", "Deluxe">>)
       /\ level = "Junior Suite" /\ bar_level = "Junior Suite"
    \/ /\ accommodation_type = Str(<<"studio", "room">>)
       /\ level = "Rooms" /\ bar_level = "Rooms"

\* ---- C11 ----
Categories == {"Rooms", "Junior Suite", "Suite", "Apartment", "Villa", "Dependence",
               "Studio", "Bungalow", "Dormitory", "Other"}
NoKeyIn(map, words) ==
    /\ PrefixKeys(map, words) = {}
    /\ \A i \in 1..Len(words) : ~HasKey(map, <<words[i]>>)

\* C11: extract_accommodation_level returns, for every argument (a string, the
\* empty string, None, a non-string value), one member of the fixed category
\* set, and "Other" when the argument is empty, None or not a string, or when
\* no prefix and no single token of it is a key of the table.
C11_TotalClassifier ==
    level # "none" =>
        /\ level \in Categories
        /\ (accommodation_type.k # "str" \/ accommodation_type.words = <<>>) => level = "Other"
        /\ (/\ accommodation_type.k = "str"
            /\ NoKeyIn(level_map, LowerSplit(accommodation_type.words))) => level = "Other"

C11_Witness ==
    /\ accommodation_type = Str(<<"Deluxe", "dependance">>)
    /\ level = "Other"

\* ---- C12 ----
Spelling(w) == LowerWord(w) \in {"depandance", "dependance"}

\* C12: in either classifier a one-word argument that is "depandance" or
\* "dependance" in any letter case is classified as "Dependence".
C12_BothSpellings ==
    (/\ accommodation_type.k = "str" /\ Len(accommodation_type.words) = 1
     /\ Spelling(accommodation_type.words[1])) =>
        /\ level # "none" => level = "Dependence"
        /\ bar_level # "none" => bar_level = "Dependence"

\* ---- C13 ----
IntCalled == parser \in {"parse_int", "seed_properties.parse_int"}
RoundTripInts == -(10 ^ (MaxChars - 1) - 1) .. (10 ^ MaxChars - 1)
HasDigit(t) == \E i \in 1..Len(t) : IsDigit(t[i])
NotAnInteger(v) ==
    \/ v.k \in {"null", "map", "nan", "inf"}
    \/ v.k = "text" /\ ~HasDigit(v.v)

\* C13: parse_int (parsers.py and seed_properties.py) never raises; it returns
\* absent for null and for the empty string, n for the decimal string of an
\* integer n, and absent for a value that cannot be converted to an integer.
C13_ParseIntTotal ==
    IntCalled =>
        /\ parsed # Raised
        /\ (input = None \/ input = Text(<<>>)) => parsed = None
        /\ \A n \in RoundTripInts : input = Text(str(n)) => parsed = Raw("int", n)
        /\ NotAnInteger(input) => parsed = None

\* ---- C14 ----
FloatCalled == parser \in {"parse_float", "seed_properties.parse_float", "seed_bar.parse_float"}
Dec(n, d) == Float(n * 10 ^ (MaxChars - d))     \* the float n / 10^d
IsNumber(v) == v.k \in {"int", "big", "float"}

\* C14: every parse_float variant returns absent for null and for the empty
\* string, 8.5 for "8,5", 8.0 for "Punteggio di 8,0", the float value of a
\* numeric input, and absent, not an exception, when the conversion fails.
C14_ParseFloat ==
    FloatCalled =>
        /\ (input = None \/ input = Text(<<>>)) => parsed = None
        /\ input = Text(<<"8", ",", "5">>) => parsed = Dec(85, 1)
        /\ input = Text(<<"P", "8", ",", "0">>) => parsed = Dec(80, 1)
        /\ input.k = "int" => parsed = Float(input.v * Scale)
        /\ input.k = "float" => parsed = input
        /\ IsNumber(input) => parsed.k = "float"
        /\ parsed # Raised
        /\ (input.k = "map" \/ (input.k = "text" /\ ~HasDigit(input.v))) => parsed = None

\* ---- C15 ----
PermissiveCalled == parser \in {"seed_properties.parse_float", "seed_bar.parse_float"}
\* "-" then digits, or "-" then digits "," digits
SignedNumeral(t) ==
    /\ Len(t) >= 2 /\ t[1] = "-"
    /\ LET n == DigitRun(t, 2)
       IN /\ n >= 1
          /\ \/ n = Len(t) - 1
             \/ /\ n + 2 < Len(t) /\ t[n + 2] = ","
                /\ DigitRun(t, n + 3) = Len(t) - n - 2
ValueOf(t) == float_of_text(replace(t, ",", <<".">>))

\* C15: for a string that is a signed integer or a signed decimal, the
\* permissive parse_float (seed_properties.py, seed_bar.py) returns that
\* number with its sign.
C15_SignKept ==
    (PermissiveCalled /\ input.k = "text" /\ SignedNumeral(input.v)) =>
        parsed = ValueOf(input.v)

\* ---- C16 ----
\* C16: parse_date turns a date into the datetime at midnight of that date,
\* a datetime into a datetime (not into absent), and "2025-01-15" into
\* 15 January 2025 at midnight.
C16_DateValues ==
    /\ date_input.k = "date" =>
           parsed_date = Datetime(date_input.v[1], date_input.v[2], date_input.v[3], 0, 0)
    /\ date_input.k = "datetime" => parsed_date.k = "datetime"
    /\ date_input = YmdText(2025, 1, 15) => parsed_date = Datetime(2025, 1, 15, 0, 0)

\* ---- C17 ----
\* C17: parse_date never raises, with or without the Italian locale on the
\* host; a string in neither form, and any other unparsable input, gives absent.
C17_ParseDateTotal ==
    /\ parsed_date # Raised
    /\ (date_input.k = "text" \/ date_input = MonthText("gennaio2", 2025)
        \/ date_input = YmdText(2025, 13, 15) \/ date_input = Raw("int", 8)) =>
           parsed_date = None

\* ---- C18, C19 ----
\* positions of a word that digits, then blanks only, immediately precede
Counted(s, word) ==
    {p \in 1..Len(s) :
        /\ s[p] = word
        /\ \E j \in 1..(p - 1) : IsDigit(s[j]) /\ \A q \in (j + 1)..(p - 1) : s[q] = " "}
\* the number written before position p
CountBefore(s, p) ==
    LET j == CHOOSE x \in 1..(p - 1) : IsDigit(s[x]) /\ \A q \in (x + 1)..(p - 1) : s[q] = " "
        k == CHOOSE x \in 1..j :
                 /\ \A q \in x..j : IsDigit(s[q])
                 /\ (x = 1 \/ ~IsDigit(s[x - 1]))
    IN Number(SubSeq(s, k, j))
FirstCount(s, word) == CountBefore(s, CHOOSE p \in Counted(s, word) :
                                         \A q \in Counted(s, word) : p <= q)
IsText(v) == v.k = "text"

\* C18: when "<N> Adulti" does not occur in the description (the empty
\* description included, and whether or not "<N> Bambino" occurs),
\* parse_occupancy returns (fallback, 0).
C18_FallbackWithoutAdults ==
    (/\ occupancy # <<>> /\ IsText(accomodation_type)
     /\ Counted(accomodation_type.v, "Adulti") = {}) =>
        occupancy = <<occupazione, Raw("int", 0)>>

Again(name) ==
    CASE translator = "translate_city" -> translate_city(name)
      [] translator = "seed_properties.translate_city" -> properties_translate_city(name)
      [] OTHER -> bar_translate_city(name)
OtherCase == {"milan", "rome", "florence", "venice", "naples", "turin", "genoa",
              "bologna", "palermo", "bari", "MILAN", "ROME", "BARI"}

\* C20: each copy of translate_city returns the Italian form of a name that is
\* a key of the table ("Milan" gives "Milano") and every other name unchanged,
\* a different-case spelling of a key included; translating the result again
\* changes nothing; the three copies agree on every name.
C20_TranslateCity ==
    translator # "none" =>
        /\ city_name \in DOMAIN CITY_TRANSLATION => translated = CITY_TRANSLATION[city_name]
        /\ city_name \notin DOMAIN CITY_TRANSLATION => translated = city_name
        /\ city_name = "Milan" => translated = "Milano"
        /\ city_name \in OtherCase \cup {"Unknown City"} => translated = city_name
        /\ Again(translated) = translated
        /\ translated = translate_city(city_name)
        /\ translated = properties_translate_city(city_name)
        /\ translated = bar_translate_city(city_name)

C20_Witness ==
    \/ city_name = "Milan" /\ translator = "seed_bar.translate_city" /\ translated = "Milano"
    \/ city_name = "milan" /\ translator = "seed_bar.translate_city" /\ translated = "milan"

\* ---- C24 ----
KeyTokens(map, words) == {i \in 1..Len(words) : HasKey(map, <<words[i]>>)}
FirstOf(S) == CHOOSE i \in S : \A j \in S : i <= j

\* C24: when no prefix of the token sequence is a key of the phrase table,
\* extract_accommodation_level returns the category of the leftmost token that
\* is a single-word key, wherever it stands, and "Other" only if there is none.
C24_TokenScan ==
    (/\ level # "none" /\ accommodation_type.k = "str"
     /\ PrefixKeys(level_map, LowerSplit(accommodation_type.words)) = {}) =>
        LET words == LowerSplit(accommodation_type.words)
        IN IF KeyTokens(level_map, words) # {}
           THEN level = Get(level_map, <<words[FirstOf(KeyTokens(level_map, words))]>>)
           ELSE level = "Other"

C24_Witness ==
    /\ accommodation_type = Str(<<"Deluxe", "Suite", "studio">>)
    /\ level = "Suite"

\* ---- C27 ----
\* C27: a call to parse_date leaves the process-global time locale as it
\* found it, for every input and every outcome.
C27_LocaleRestored == [][LC_TIME' = LC_TIME]_vars

\* ---- C22 ----
\* C22: when a run of an import driver ends (the summary is logged), its
\* success count is the number of documents the run inserted, and every input
\* record has incremented exactly one of success, errors, duplicates.
C22_Tally ==
    pc = "done" =>
        /\ success = inserted
        /\ success + errors + duplicates = N
        /\ inserted = NewIn(Properties) + NewIn(Reviews) + NewIn(Rooms)
                      + NewIn(Reputation_KPI_Table) + NewIn(FULL_HTL) + NewIn(FULL_APT)
                      + NewIn(BAR_HTL) + NewIn(BAR_APT)

C22_Witness ==
    /\ pc = "done" /\ driver = "full" /\ N = MaxBatch
    /\ success = 1 /\ errors = 1 /\ inserted = 1

\* ---- C23 ----
Built == pc = "loop" /\ driver \in {"reviews", "full"}
Carrying(coll, b) == {d \in coll : d.booking_id = b}
LastScanned(docs) == CHOOSE d \in docs : \A e \in docs : e._id <= d._id
MapHolds(b, doc) == b \in DOMAIN booking_id_map /\ booking_id_map[b] = OidStr(doc._id)

\* C23: the map is built from the hotel partition first and the apartment
\* partition second: a booking identifier carried by apartment records maps to
\* the last-scanned apartment record (also when hotel records carry it), and
\* one carried by hotel records only maps to the last-scanned hotel record.
C23_ScanOrder ==
    Built =>
        \A b \in BookingIds :
            /\ Carrying(Properties_APT, b) # {} =>
                   MapHolds(b, LastScanned(Carrying(Properties_APT, b)))
            /\ (Carrying(Properties_APT, b) = {} /\ Carrying(Properties_HTL, b) # {}) =>
                   MapHolds(b, LastScanned(Carrying(Properties_HTL, b)))

\* ---- C25 ----
IntOrItsText(raw) == raw.k \in {"int", "str"}
Resolved == outcome \in {"inserted", "invalid"}
LastInserted(coll) == {d \in coll : d._id = nextOid - 1}

\* C25: seed_reviews and seed_full resolve a raw id (an integer or the text of
\* an integer) alike: either importer resolves it exactly when that integer is a
\* key of the booking-id map, and the document it inserts refers to the
\* identifier the map holds for that integer.
C25_SameResolution ==
    (driver \in {"reviews", "full"} /\ outcome # "none" /\ record.complete
        /\ IntOrItsText(record.id)) =>
        /\ Resolved <=> record.id.v \in DOMAIN booking_id_map
        /\ outcome = "inserted" =>
              \A d \in LastInserted(Reviews \cup FULL_HTL \cup FULL_APT) :
                  d.PropertyId = ObjectId(booking_id_map[record.id.v])

\* ---- C21 ----
\* the optional fields of each model and the raw key each is taken from
OptionalSource(s) ==
    CASE s = "full" -> ("OfferTitle" :> "OfferTitle") @@ ("RoomsBARLeft" :> "RoomsLeft")
      [] s = "reviews" -> ("Positive" :> "Commento Positivo") @@ ("ReviewDate" :> "DataRecensione")
      [] s = "properties" -> ("zone" :> "Zona")
      [] s = "rooms" -> ("BedDesc" :> "BedDesc") @@ ("roomSize" :> "roomSize")
      [] s = "reputation" -> ("Valuation" :> "Valutazione") @@ ("Score" :> "Score")
RequiredFields(s) == {f \in DOMAIN Fields(s) : ~Fields(s)[f].optional}

\* C21: a document handed to the store has no top-level field whose value is
\* null, omits every optional field whose raw value is absent or null, and has
\* every required field of its model.
C21_SparseDocument ==
    handed = "inserted" =>
        /\ \A f \in DOMAIN document : document[f] # None
        /\ \A f \in DOMAIN OptionalSource(script) :
               get(candidate, OptionalSource(script)[f], None) = None => f \notin DOMAIN document
        /\ RequiredFields(script) \subseteq DOMAIN document

C21_Witness ==
    /\ handed = "inserted" /\ script = "properties"
    /\ "Zona" \notin DOMAIN candidate
    /\ DOMAIN document = {"name", "stars"}

\* ---- C26 ----
\* C26: in the full-price import, when parse_int of the raw rooms-left value is
\* an integer, the persisted document has RoomsBARLeft equal to that integer,
\* 0 included.
C26_RoomsLeftKept ==
    (handed = "inserted" /\ script = "full" /\ IsInt(parse_int(candidate["RoomsLeft"]))) =>
        /\ "RoomsBARLeft" \in DOMAIN document
        /\ document["RoomsBARLeft"] = parse_int(candidate["RoomsLeft"])

\* ---- C28 ----
\* C28: a persisted reputation document has DateSearch taken from the raw
\* DataRicerca and FullDateSearch from the raw FullDataRicerca, as seed_full
\* maps the two fields.
C28_DateFields ==
    (handed = "inserted" /\ script = "reputation") =>
        /\ document["DateSearch"] = parse_date(candidate["DataRicerca"], "C", locales).value
        /\ document["FullDateSearch"] =
               parse_date(candidate["FullDataRicerca"], "C", locales).value

====
